---- MODULE Spec2Model ----
(***************************************************************************)
(* A model of the oxidizer persistence layer:                              *)
(*   - the pooled executor of oxidizer/src/db/db.rs (DB::connect,          *)
(*     DB::execute, DB::query, ConnectionManager::connect/check,           *)
(*     DB::migrate_tables, DB::migrate), and                               *)
(*   - the operations the derive macro of                                  *)
(*     dboom-entity-macro/src/entity_builder.rs generates for an entity    *)
(*     (save, delete, from_row, find, first, create_migration).            *)
(*                                                                         *)
(* Every async fn is cut at its .await points: one action per segment.     *)
(* The database, the mobc pool and the refinery runner are libraries the   *)
(* repository calls; they are modelled by their documented behaviour at    *)
(* the call site that uses them.                                           *)
(***************************************************************************)
EXTENDS Integers, Sequences, FiniteSets, TLC

(* ------------------------------------------------------------------ *)
(* Bounds of the model                                                  *)
(* ------------------------------------------------------------------ *)
NTasks == 2          \* concurrently running callers
MaxCalls == 3        \* operations started in one behaviour
MaxOpenArg == 2      \* largest max_open handed to DB::connect

Tasks == 1..NTasks
FieldNames == {"a", "b"}     \* values of the entity's `name` field

(* ------------------------------------------------------------------ *)
(* State                                                                *)
(* ------------------------------------------------------------------ *)
VARIABLES
  max_open,   \* DB::connect's max_open, as given to Pool::builder()
  idleOk,     \* idle pooled connections whose session is alive
  idleBad,    \* idle pooled connections whose session is dead
  conn,       \* conn[t]: the connection task t holds: "none", or its health at hand-over
  pc,         \* pc[t]: "ready" | "get" | "prepare" | "run"
  op,         \* op[t]: the operation in flight, or the last one finished
  arg,        \* arg[t]: condition and parameters of find/first
  rec,        \* rec[t]: the record task t owns, [id, name]
  ret,        \* ret[t]: "none" | "Ok" | "MobcError" | "PostgresError" | "Other";
              \* of a migration run: "Ok" | "MobcError" | the RefineryError's kind
  flag,       \* flag[t]: the bool an Ok save/delete returned
  found,      \* found[t]: the records an Ok find/first returned
  prev,       \* prev[t]: summary of the operation before the last one
  issued,     \* issued[t]: statements the operation handed to the executor
  discards,   \* discards[t]: connections that failed check in t's pool.get()
  store,      \* the entity's table: rows in the database's result order
  nextId,     \* the table's key sequence
  calls,      \* operations started so far
  desc,       \* the entity description the derive macro is expanded for
  mig,        \* what the generated create_migration returned, <<>> before
  saveFn,     \* the statements of the save the macro generated, <<>> before
  ms,         \* the list migrate_tables was called with
  todo,       \* the migrations the runner still has to apply in this run
  report,     \* the run's Report: the migrations it applied, in order
  logged,     \* versions the run logged as divergent
  history,    \* the migration history table: [version, name, checksum]
  schema,     \* the tables that exist
  historyTable, \* whether the history table exists
  before,     \* history and schema when the run started
  lastRun,    \* the list of the run before this one, and whether it returned Ok
  runs        \* runs started so far

entityVars == <<max_open, idleOk, idleBad, conn, pc, op, arg, rec, ret, flag,
                found, prev, issued, discards, store, nextId, calls>>
genVars == <<desc, mig, saveFn>>
(* what the pool and the generated save/delete/find/first never touch *)
migVars == <<ms, todo, report, logged, history, schema, historyTable, before,
            lastRun, runs>>
otherVars == <<genVars, migVars>>
vars == <<entityVars, otherVars>>

poolVars == <<max_open, idleOk, idleBad, conn>>

(* The primary key type's Default::default(): 0 for the integer keys the  *)
(* generated delete assumes (it resets the key with the literal 0).       *)
PkDefault == 0

(* ------------------------------------------------------------------ *)
(* The database: what the statements the code sends do to the table     *)
(* ------------------------------------------------------------------ *)

Min(a, b) == IF a < b THEN a ELSE b

(* INSERT INTO t (name) values($1) RETURNING id: the key comes from the   *)
(* table's sequence; the returned rows hold the new row's key.            *)
DbInsert(s, k, n) == Append(s, [id |-> k, name |-> n])

(* UPDATE t SET name = $1 WHERE id = $2 *)
DbUpdate(s, n, k) ==
  [i \in DOMAIN s |-> IF s[i].id = k THEN [s[i] EXCEPT !.name = n] ELSE s[i]]

(* DELETE FROM t WHERE id = $1, and its affected-row count *)
DbDelete(s, k) == SelectSeq(s, LAMBDA r : r.id # k)
DbAffected(s, k) == Len(s) - Len(DbDelete(s, k))

(* A caller's condition with its positional parameter list. *)
Conds == {<<"TRUE", <<>>>>, <<"name = $1", <<"a">>>>, <<"id = $1", <<1>>>>}

Matches(r, c) ==
  CASE c[1] = "TRUE" -> TRUE
    [] c[1] = "name = $1" -> r.name = c[2][1]
    [] c[1] = "id = $1" -> r.id = c[2][1]

(* SELECT * FROM t WHERE <c>, with lim = 0 for no LIMIT clause *)
DbSelect(s, c, lim) ==
  LET all == SelectSeq(s, LAMBDA r : Matches(r, c))
  IN IF lim = 0 THEN all ELSE SubSeq(all, 1, Min(lim, Len(all)))

(* ------------------------------------------------------------------ *)
(* ConnectionManager and the pool                                       *)
(* ------------------------------------------------------------------ *)

(* A check that drops the query's result and always answers Ok. *)
check_ignores_error(health) == "Ok"

(* ConnectionManager::check: one simple_query("") round trip; the `?`    *)
(* turns its failure into Err, otherwise the connection is handed back.  *)
check(health) == IF health = "ok" THEN "Ok" ELSE "Err"

(* A builder that is given one connection more than the caller asked for. *)
PoolLimit_off_by_one == max_open + 1

(* Pool::builder().max_open(max_open): the pool's limit is the caller's  *)
(* number. mobc reads 0 as "no limit".                                   *)
PoolLimit == max_open

Borrowed == Cardinality({t \in Tasks : conn[t] # "none"})
NumOpen == idleOk + idleBad + Borrowed
AtCapacity == PoolLimit > 0 /\ NumOpen >= PoolLimit

(* ------------------------------------------------------------------ *)
(* Initial state: DB::connect has built the pool (connections are made  *)
(* lazily), the table is empty, every task owns a fresh record.         *)
(* ------------------------------------------------------------------ *)
NoCond == <<"TRUE", <<>>>>

(* The pool as DB::connect leaves it, and callers that have called nothing. *)
InitPool ==
  /\ max_open \in 0..MaxOpenArg
  /\ idleOk = 0
  /\ idleBad = 0
  /\ conn = [t \in Tasks |-> "none"]

InitTasks ==
  /\ pc = [t \in Tasks |-> "ready"]
  /\ op = [t \in Tasks |-> "none"]
  /\ arg = [t \in Tasks |-> NoCond]
  /\ ret = [t \in Tasks |-> "none"]
  /\ flag = [t \in Tasks |-> FALSE]
  /\ found = [t \in Tasks |-> <<>>]
  /\ prev = [t \in Tasks |-> "none"]
  /\ issued = [t \in Tasks |-> 0]
  /\ discards = [t \in Tasks |-> 0]
  /\ calls = 0

(* The entity of Spec and SpecRead: struct { #[primary_key] id, name }. *)
EntityFields ==
  << [name |-> "id", ty |-> "i32", pk |-> TRUE, ignore |-> FALSE, custom |-> "none"],
     [name |-> "name", ty |-> "String", pk |-> FALSE, ignore |-> FALSE, custom |-> "none"] >>

InitGenIdle ==
  /\ desc = EntityFields
  /\ mig = <<>>
  /\ saveFn = <<>>

(* A fresh database: no history table, no table, no run yet. *)
InitMig ==
  /\ ms = <<>>
  /\ todo = <<>>
  /\ report = <<>>
  /\ logged = {}
  /\ history = <<>>
  /\ schema = {}
  /\ historyTable = FALSE
  /\ before = [history |-> <<>>, schema |-> {}]
  /\ lastRun = [list |-> <<>>, ok |-> FALSE]
  /\ runs = 0

Init ==
  /\ InitPool
  /\ InitTasks
  /\ rec \in [Tasks -> [id : {PkDefault}, name : FieldNames]]
  /\ store = <<>>
  /\ nextId = 1
  /\ InitGenIdle
  /\ InitMig

(* What the last finished save/delete on task t's record did. *)
Summary(t) ==
  CASE op[t] \in {"find", "first"} -> prev[t]
    [] ret[t] = "none" -> "none"
    [] ret[t] # "Ok" -> "failed"
    [] op[t] = "save" -> IF flag[t] THEN "created" ELSE "updated"
    [] OTHER -> IF flag[t] THEN "deleted" ELSE "kept"

(* An operation starts: it reaches its first .await, pool.get(). *)
Start(t, o, c) ==
  /\ pc[t] = "ready"
  /\ calls < MaxCalls
  /\ calls' = calls + 1
  /\ pc' = [pc EXCEPT ![t] = "get"]
  /\ op' = [op EXCEPT ![t] = o]
  /\ arg' = [arg EXCEPT ![t] = c]
  /\ prev' = [prev EXCEPT ![t] = Summary(t)]
  /\ ret' = [ret EXCEPT ![t] = "none"]
  /\ flag' = [flag EXCEPT ![t] = FALSE]
  /\ found' = [found EXCEPT ![t] = <<>>]
  /\ issued' = [issued EXCEPT ![t] = 1]
  /\ discards' = [discards EXCEPT ![t] = 0]
  /\ UNCHANGED <<poolVars, store, nextId,
                 otherVars>>

(* An operation returns r to its caller. *)
Return(t, r, b, f) ==
  /\ pc' = [pc EXCEPT ![t] = "ready"]
  /\ ret' = [ret EXCEPT ![t] = r]
  /\ flag' = [flag EXCEPT ![t] = b]
  /\ found' = [found EXCEPT ![t] = f]

(* The mobc connection guard is dropped: the connection goes back to     *)
(* the pool. A session that died is a SessionDies step after it.         *)
Release(t, health) ==
  /\ conn' = [conn EXCEPT ![t] = "none"]
  /\ idleOk' = IF health = "ok" THEN idleOk + 1 ELSE idleOk
  /\ idleBad' = IF health = "ok" THEN idleBad ELSE idleBad + 1
  /\ UNCHANGED max_open

(* ------------------------------------------------------------------ *)
(* pool.get().await, as DB::execute, DB::query and DB::migrate call it  *)
(* ------------------------------------------------------------------ *)

(* Where the caller of pool.get() goes on: DB::execute and DB::query     *)
(* prepare the statement, DB::migrate hands the client to the runner.    *)
AfterGet(t) == IF op[t] = "migrate" THEN "assert" ELSE "prepare"

(* A getter that is handed an idle connection as it lies in the pool. *)
PoolGetIdle_unchecked(t) ==
  /\ pc[t] = "get"
  /\ \E h \in {"ok", "broken"} :
       /\ IF h = "ok" THEN idleOk > 0 ELSE idleBad > 0
       /\ conn' = [conn EXCEPT ![t] = h]
       /\ idleOk' = IF h = "ok" THEN idleOk - 1 ELSE idleOk
       /\ idleBad' = IF h = "ok" THEN idleBad ELSE idleBad - 1
  /\ pc' = [pc EXCEPT ![t] = AfterGet(t)]
  /\ UNCHANGED <<max_open, op, arg, rec, ret, flag, found, prev, issued, discards,
                 store, nextId, calls,
                 otherVars>>

(* An idle connection passes ConnectionManager::check and is handed over. *)
PoolGetIdle(t) ==
  /\ pc[t] = "get"
  /\ \E h \in {"ok", "broken"} :
       /\ IF h = "ok" THEN idleOk > 0 ELSE idleBad > 0
       /\ check(h) = "Ok"
       /\ conn' = [conn EXCEPT ![t] = h]
       /\ idleOk' = IF h = "ok" THEN idleOk - 1 ELSE idleOk
       /\ idleBad' = IF h = "ok" THEN idleBad ELSE idleBad - 1
  /\ pc' = [pc EXCEPT ![t] = AfterGet(t)]
  /\ UNCHANGED <<max_open, op, arg, rec, ret, flag, found, prev, issued, discards,
                 store, nextId, calls,
                 otherVars>>

(* An idle connection fails the check: the pool drops it and the getter   *)
(* tries again.                                                           *)
PoolGetDiscard(t) ==
  /\ pc[t] = "get"
  /\ \E h \in {"ok", "broken"} :
       /\ IF h = "ok" THEN idleOk > 0 ELSE idleBad > 0
       /\ check(h) = "Err"
       /\ idleOk' = IF h = "ok" THEN idleOk - 1 ELSE idleOk
       /\ idleBad' = IF h = "ok" THEN idleBad ELSE idleBad - 1
  /\ discards' = [discards EXCEPT ![t] = @ + 1]
  /\ UNCHANGED <<max_open, conn, pc, op, arg, rec, ret, flag, found, prev,
                 issued, store, nextId, calls,
                 otherVars>>

(* No idle connection and room for one more: ConnectionManager::connect   *)
(* opens a session, spawns its driver and the client is handed over.      *)
PoolGetNew(t) ==
  /\ pc[t] = "get"
  /\ idleOk + idleBad = 0
  /\ ~AtCapacity
  /\ conn' = [conn EXCEPT ![t] = "ok"]
  /\ pc' = [pc EXCEPT ![t] = AfterGet(t)]
  /\ UNCHANGED <<max_open, idleOk, idleBad, op, arg, rec, ret, flag, found,
                 prev, issued, discards, store, nextId, calls,
                 otherVars>>

(* pool.get() fails (connect fails, or the wait for a free connection     *)
(* times out): map_err(Error::MobcError) and `?` return it.               *)
PoolGetErr(t) ==
  /\ pc[t] = "get"
  /\ Return(t, "MobcError", FALSE, <<>>)
  /\ UNCHANGED <<poolVars, op, arg, rec, prev, issued, discards, store, nextId, calls,
                 otherVars>>

(* The backend ends the session of an idle connection. *)
SessionDies ==
  /\ idleOk > 0
  /\ idleOk' = idleOk - 1
  /\ idleBad' = idleBad + 1
  /\ UNCHANGED <<max_open, conn, pc, op, arg, rec, ret, flag, found, prev,
                 issued, discards, store, nextId, calls,
                 otherVars>>

(* ------------------------------------------------------------------ *)
(* DB::execute / DB::query after the connection is held                 *)
(* ------------------------------------------------------------------ *)

(* client.prepare(query).await succeeds. *)
PrepareOk(t) ==
  /\ pc[t] = "prepare"
  /\ pc' = [pc EXCEPT ![t] = "run"]
  /\ UNCHANGED <<poolVars, op, arg, rec, ret, flag, found, prev, issued, discards,
                 store, nextId, calls,
                 otherVars>>

(* A prepare failure that returns while the connection stays borrowed. *)
PrepareErr_keeps_connection(t) ==
  /\ pc[t] = "prepare"
  /\ Return(t, "PostgresError", FALSE, <<>>)
  /\ UNCHANGED <<poolVars, op, arg, rec, prev, issued, discards, store, nextId, calls,
                 otherVars>>

(* client.prepare fails: `?` returns Error::PostgresError and the guard   *)
(* goes out of scope.                                                     *)
PrepareErr(t) ==
  /\ pc[t] = "prepare"
  /\ Release(t, "ok")
  /\ Return(t, "PostgresError", FALSE, <<>>)
  /\ UNCHANGED <<op, arg, rec, prev, issued, discards, store, nextId, calls,
                 otherVars>>

(* A statement failure after which the record's key is found reset. *)
RunErr_resets_key(t) ==
  /\ pc[t] = "run"
  /\ Release(t, "ok")
  /\ Return(t, "PostgresError", FALSE, <<>>)
  /\ rec' = [rec EXCEPT ![t].id = PkDefault]
  /\ UNCHANGED <<op, arg, prev, issued, discards, store, nextId, calls,
                 otherVars>>

(* A statement failure that returns while the connection stays borrowed. *)
RunErr_keeps_connection(t) ==
  /\ pc[t] = "run"
  /\ Return(t, "PostgresError", FALSE, <<>>)
  /\ UNCHANGED <<poolVars, op, arg, rec, prev, issued, discards, store, nextId, calls,
                 otherVars>>

(* client.execute / client.query fails: the error is returned and the     *)
(* guard goes out of scope.                                               *)
RunErr(t) ==
  /\ pc[t] = "run"
  /\ Release(t, "ok")
  /\ Return(t, "PostgresError", FALSE, <<>>)
  /\ UNCHANGED <<op, arg, rec, prev, issued, discards, store, nextId, calls,
                 otherVars>>

(* ------------------------------------------------------------------ *)
(* The generated operations (entity_builder.rs)                         *)
(* ------------------------------------------------------------------ *)

(* save's match arm: the guard `self.pk == primary_key_default`. *)
SaveInserts(r) == r.id = PkDefault

(* A delete without the early return. *)
DeleteIsNoop_never(r) == FALSE

(* delete's early return: `if self.pk == Default::default()`. *)
DeleteIsNoop(r) == r.id = PkDefault

(* A column value row.get cannot convert to the field's type: NULL for a *)
(* field that is not an Option.                                         *)
SqlNull == "NULL"

(* row.get::<&str, T>(column) returns the value, or panics when it      *)
(* cannot be converted to T.                                            *)
Decodable(row) == row.name # SqlNull

(* from_row: each field is read from the row by its column name. *)
from_row(row) == [id |-> row.id, name |-> row.name]

(* A collect that walks the rows from the last to the first. *)
DecodeAll_reversed(rows) ==
  [i \in DOMAIN rows |-> [id |-> rows[Len(rows) + 1 - i].id,
                          name |-> rows[Len(rows) + 1 - i].name]]

(* rows.iter().map(|row| Self::from_row(row)).collect() *)
DecodeAll(rows) == [i \in DOMAIN rows |-> from_row(rows[i])]

(* find: SELECT * FROM t WHERE <condition>, every row decoded in order. *)
FindResult(s, c) == DecodeAll(DbSelect(s, c, 0))

(* first: the same query with " LIMIT 1" appended; None for no row,      *)
(* otherwise results.remove(0). An Option is a sequence of length <= 1.  *)
FirstResult(s, c) ==
  LET results == DecodeAll(DbSelect(s, c, 1))
  IN IF Len(results) = 0 THEN <<>> ELSE <<results[1]>>

(* save(&mut self, db) up to its first .await. The caller, who owns the   *)
(* record, may have given its field a new value since the last call.     *)
save(t) ==
  /\ Start(t, "save", NoCond)
  /\ \E n \in FieldNames : rec' = [rec EXCEPT ![t].name = n]

(* delete(&mut self, db) up to its first .await, or to its early return. *)
delete(t) ==
  IF DeleteIsNoop(rec[t])
  THEN /\ pc[t] = "ready"
       /\ calls < MaxCalls
       /\ calls' = calls + 1
       /\ op' = [op EXCEPT ![t] = "delete"]
       /\ arg' = [arg EXCEPT ![t] = NoCond]
       /\ prev' = [prev EXCEPT ![t] = Summary(t)]
       /\ issued' = [issued EXCEPT ![t] = 0]
       /\ discards' = [discards EXCEPT ![t] = 0]
       /\ Return(t, "Ok", FALSE, <<>>)
       /\ UNCHANGED <<poolVars, rec, store, nextId,
                 otherVars>>
  ELSE Start(t, "delete", NoCond) /\ UNCHANGED rec

(* find(db, condition, params) and first(db, condition, params) up to     *)
(* their first .await.                                                    *)
find(t) == (\E c \in Conds : Start(t, "find", c)) /\ UNCHANGED rec

first(t) == (\E c \in Conds : Start(t, "first", c)) /\ UNCHANGED rec

(* An INSERT arm that never assigns the returned key to the record. *)
SaveInsertDone_keeps_key(t) ==
  /\ pc[t] = "run" /\ op[t] = "save" /\ rec[t].id = PkDefault
  /\ store' = DbInsert(store, nextId, rec[t].name)
  /\ nextId' = nextId + 1
  /\ Release(t, "ok")
  /\ Return(t, "Ok", TRUE, <<>>)
  /\ UNCHANGED <<op, arg, rec, prev, issued, discards, calls,
                 otherVars>>

(* An INSERT arm that takes the statement's affected-row count (always    *)
(* 1) for the key instead of the RETURNING column.                       *)
SaveInsertDone_count_as_key(t) ==
  /\ pc[t] = "run" /\ op[t] = "save" /\ rec[t].id = PkDefault
  /\ store' = DbInsert(store, nextId, rec[t].name)
  /\ nextId' = nextId + 1
  /\ Release(t, "ok")
  /\ rec' = [rec EXCEPT ![t].id = 1]
  /\ Return(t, "Ok", TRUE, <<>>)
  /\ UNCHANGED <<op, arg, prev, issued, discards, calls,
                 otherVars>>

(* save, INSERT arm: the statement runs, the row comes back, the key is   *)
(* read from it and assigned; Ok(creating) with creating = true.          *)
SaveInsertDone(t) ==
  /\ pc[t] = "run" /\ op[t] = "save" /\ SaveInserts(rec[t])
  /\ store' = DbInsert(store, nextId, rec[t].name)
  /\ nextId' = nextId + 1
  /\ Release(t, "ok")
  /\ rec' = [rec EXCEPT ![t].id = nextId]
  /\ Return(t, "Ok", TRUE, <<>>)
  /\ UNCHANGED <<op, arg, prev, issued, discards, calls,
                 otherVars>>

(* An INSERT arm that answers a missing row like a lookup that found     *)
(* nothing: Ok(false).                                                  *)
SaveInsertNoRow_not_found(t) ==
  /\ pc[t] = "run" /\ op[t] = "save" /\ SaveInserts(rec[t])
  /\ Release(t, "ok")
  /\ Return(t, "Ok", FALSE, <<>>)
  /\ UNCHANGED <<op, arg, rec, prev, issued, discards, store, nextId, calls,
                 otherVars>>

(* save, INSERT arm: the row came back but its key column cannot be      *)
(* converted to the key's type (the column is of another type than the  *)
(* field): first_row.get panics after the row was stored.               *)
SaveInsertPanic(t) ==
  /\ pc[t] = "run" /\ op[t] = "save" /\ SaveInserts(rec[t])
  /\ store' = DbInsert(store, nextId, rec[t].name)
  /\ nextId' = nextId + 1
  /\ Release(t, "ok")
  /\ pc' = [pc EXCEPT ![t] = "panicked"]
  /\ UNCHANGED <<op, arg, rec, ret, flag, found, prev, issued, discards, calls,
                 otherVars>>


(* and ok_or(Error::Other)? returns the error.                            *)
SaveInsertNoRow(t) ==
  /\ pc[t] = "run" /\ op[t] = "save" /\ SaveInserts(rec[t])
  /\ Release(t, "ok")
  /\ Return(t, "Other", FALSE, <<>>)
  /\ UNCHANGED <<op, arg, rec, prev, issued, discards, store, nextId, calls,
                 otherVars>>

(* An UPDATE arm that looks at the count and stores the record as a new *)
(* row, reporting it created, when no row matched.                     *)
SaveUpdateDone_upsert(t) ==
  /\ pc[t] = "run" /\ op[t] = "save" /\ ~SaveInserts(rec[t])
  /\ store' = IF \E i \in DOMAIN store : store[i].id = rec[t].id
              THEN DbUpdate(store, rec[t].name, rec[t].id)
              ELSE DbInsert(store, rec[t].id, rec[t].name)
  /\ Release(t, "ok")
  /\ Return(t, "Ok", ~(\E i \in DOMAIN store : store[i].id = rec[t].id), <<>>)
  /\ UNCHANGED <<op, arg, rec, prev, issued, discards, nextId, calls,
                 otherVars>>

(* save, UPDATE arm: the count execute returns is dropped; Ok(false). *)
SaveUpdateDone(t) ==
  /\ pc[t] = "run" /\ op[t] = "save" /\ ~SaveInserts(rec[t])
  /\ store' = DbUpdate(store, rec[t].name, rec[t].id)
  /\ Release(t, "ok")
  /\ Return(t, "Ok", FALSE, <<>>)
  /\ UNCHANGED <<op, arg, rec, prev, issued, discards, nextId, calls,
                 otherVars>>

(* A delete that resets the key whatever the count was. *)
DeleteDone_always_resets(t) ==
  /\ pc[t] = "run" /\ op[t] = "delete"
  /\ store' = DbDelete(store, rec[t].id)
  /\ Release(t, "ok")
  /\ Return(t, "Ok", DbAffected(store, rec[t].id) # 0, <<>>)
  /\ rec' = [rec EXCEPT ![t].id = 0]
  /\ UNCHANGED <<op, arg, prev, issued, discards, nextId, calls,
                 otherVars>>

(* A delete that returns Ok(true) without resetting the key. *)
DeleteDone_keeps_key(t) ==
  /\ pc[t] = "run" /\ op[t] = "delete"
  /\ store' = DbDelete(store, rec[t].id)
  /\ Release(t, "ok")
  /\ Return(t, "Ok", DbAffected(store, rec[t].id) # 0, <<>>)
  /\ UNCHANGED <<op, arg, rec, prev, issued, discards, nextId, calls,
                 otherVars>>

(* delete: 0 affected rows give Ok(false); otherwise the key is set to 0  *)
(* and Ok(true) is returned.                                              *)
DeleteDone(t) ==
  /\ pc[t] = "run" /\ op[t] = "delete"
  /\ store' = DbDelete(store, rec[t].id)
  /\ Release(t, "ok")
  /\ IF DbAffected(store, rec[t].id) = 0
     THEN /\ Return(t, "Ok", FALSE, <<>>)
          /\ UNCHANGED rec
     ELSE /\ Return(t, "Ok", TRUE, <<>>)
          /\ rec' = [rec EXCEPT ![t].id = 0]
  /\ UNCHANGED <<op, arg, prev, issued, discards, nextId, calls,
                 otherVars>>

(* find after db.query returned the rows (the guard is gone with it):   *)
(* every row is decoded and Ok(results) returned; a row.get that cannot *)
(* convert a value panics inside from_row.                              *)
FindDone(t) ==
  /\ pc[t] = "run" /\ op[t] = "find"
  /\ Release(t, "ok")
  /\ IF \A i \in DOMAIN DbSelect(store, arg[t], 0) : Decodable(DbSelect(store, arg[t], 0)[i])
     THEN Return(t, "Ok", FALSE, FindResult(store, arg[t]))
     ELSE pc' = [pc EXCEPT ![t] = "panicked"] /\ UNCHANGED <<ret, flag, found>>
  /\ UNCHANGED <<op, arg, rec, prev, issued, discards, store, nextId, calls,
                 otherVars>>

(* first after db.query returned: the same decoding over at most one row. *)
FirstDone(t) ==
  /\ pc[t] = "run" /\ op[t] = "first"
  /\ Release(t, "ok")
  /\ IF \A i \in DOMAIN DbSelect(store, arg[t], 1) : Decodable(DbSelect(store, arg[t], 1)[i])
     THEN Return(t, "Ok", FALSE, FirstResult(store, arg[t]))
     ELSE pc' = [pc EXCEPT ![t] = "panicked"] /\ UNCHANGED <<ret, flag, found>>
  /\ UNCHANGED <<op, arg, rec, prev, issued, discards, store, nextId, calls,
                 otherVars>>

(* The executor's steps, shared by every operation. *)
Executor(t) ==
  \/ PoolGetIdle(t) \/ PoolGetDiscard(t) \/ PoolGetNew(t) \/ PoolGetErr(t)
  \/ PrepareOk(t) \/ PrepareErr(t) \/ RunErr(t)

(* Spec: concurrent callers saving and deleting their records. *)
Next ==
  \/ \E t \in Tasks :
       \/ save(t) \/ delete(t)
       \/ Executor(t)
       \/ SaveInsertDone(t) \/ SaveInsertNoRow(t) \/ SaveUpdateDone(t)
       \/ DeleteDone(t)
  \/ SessionDies

Spec == Init /\ [][Next]_vars

(* SpecRead: one caller querying a table of any content with find and     *)
(* first (both are associated functions: they take no record).            *)
MaxRows == 2
Reader == CHOOSE t \in Tasks : TRUE

Tables ==
  UNION {{s \in [1..n -> [id : 1..MaxRows, name : FieldNames]] :
            \A i, j \in 1..n : i # j => s[i].id # s[j].id} : n \in 0..MaxRows}

InitRead ==
  /\ InitPool
  /\ InitTasks
  /\ rec = [t \in Tasks |-> [id |-> PkDefault, name |-> "a"]]
  /\ store \in Tables
  /\ nextId = MaxRows + 1
  /\ InitGenIdle
  /\ InitMig

NextRead ==
  \/ find(Reader) \/ first(Reader)
  \/ Executor(Reader)
  \/ FindDone(Reader) \/ FirstDone(Reader)
  \/ SessionDies

SpecRead == InitRead /\ [][NextRead]_vars

(* SpecLive: Spec with a backend that answers (connecting succeeds and   *)
(* no getter gives up waiting) and a runtime that polls every task that *)
(* can go on: each step of a call in flight is taken if it stays        *)
(* possible. Callers are free to stop calling.                          *)
Responsive(t) ==
  \/ PoolGetIdle(t) \/ PoolGetDiscard(t) \/ PoolGetNew(t)
  \/ PrepareOk(t) \/ PrepareErr(t) \/ RunErr(t)
  \/ SaveInsertDone(t) \/ SaveInsertNoRow(t) \/ SaveUpdateDone(t)
  \/ DeleteDone(t)

NextLive ==
  \/ \E t \in Tasks :
       \/ save(t) \/ delete(t)
       \/ Responsive(t)
  \/ SessionDies

SpecLive ==
  /\ Init
  /\ [][NextLive]_vars
  /\ \A t \in Tasks : WF_vars(Responsive(t))

(* SpecCancel: Spec with callers that may drop the future of a call     *)
(* while it waits in DB::execute / DB::query with the connection held.  *)

(* What the statement of t's operation does to the table once the       *)
(* database has run it.                                                 *)
StatementEffect(t) ==
  CASE op[t] = "save" /\ SaveInserts(rec[t])
         -> [store |-> DbInsert(store, nextId, rec[t].name), nextId |-> nextId + 1]
    [] op[t] = "save" /\ ~SaveInserts(rec[t])
         -> [store |-> DbUpdate(store, rec[t].name, rec[t].id), nextId |-> nextId]
    [] op[t] = "delete"
         -> [store |-> DbDelete(store, rec[t].id), nextId |-> nextId]
    [] OTHER -> [store |-> store, nextId |-> nextId]

(* The caller drops the future at client.prepare(..).await or at         *)
(* client.execute/query(..).await: nothing is returned and nothing is    *)
(* assigned to the record; the guard `client` is dropped with the        *)
(* future, so the connection goes back to the pool, its session in       *)
(* whatever state the abandoned round trip left it. A statement that was *)
(* already sent may still have run.                                      *)
Cancel(t) ==
  /\ pc[t] \in {"prepare", "run"}
  /\ \E h \in {"ok", "broken"} : Release(t, h)
  /\ \E sent \in BOOLEAN :
       IF sent /\ pc[t] = "run"
       THEN store' = StatementEffect(t).store /\ nextId' = StatementEffect(t).nextId
       ELSE UNCHANGED <<store, nextId>>
  /\ pc' = [pc EXCEPT ![t] = "ready"]
  /\ UNCHANGED <<op, arg, rec, ret, flag, found, prev, issued, discards, calls,
                 otherVars>>

NextCancel ==
  \/ \E t \in Tasks :
       \/ save(t) \/ delete(t)
       \/ Executor(t)
       \/ SaveInsertDone(t) \/ SaveInsertNoRow(t) \/ SaveUpdateDone(t)
       \/ DeleteDone(t)
       \/ Cancel(t)
  \/ SessionDies

SpecCancel == Init /\ [][NextCancel]_vars

(* SpecOwn: one caller saving and deleting a record it built itself, so  *)
(* with any key, against a table of any content: the record may carry   *)
(* the key of a row that is not, or no longer, stored.                  *)
Owner == CHOOSE t \in Tasks : TRUE

InitOwn ==
  /\ InitPool
  /\ InitTasks
  /\ \E k \in 0..MaxRows, n \in FieldNames :
       rec = [t \in Tasks |-> [id |-> k, name |-> n]]
  /\ store \in Tables
  /\ nextId = MaxRows + 1
  /\ InitGenIdle
  /\ InitMig

NextOwn ==
  \/ save(Owner) \/ delete(Owner)
  \/ Executor(Owner)
  \/ SaveInsertDone(Owner) \/ SaveInsertNoRow(Owner) \/ SaveUpdateDone(Owner)
  \/ DeleteDone(Owner)
  \/ SessionDies

SpecOwn == InitOwn /\ [][NextOwn]_vars

(* ------------------------------------------------------------------ *)
(* SpecGen: the derive macro expanded for an entity description, and    *)
(* the create_migration it generates                                    *)
(* ------------------------------------------------------------------ *)
MaxFields == 3

FieldIdents == {"id", "name", "note"}
SemanticTypes == {"i32", "String"}
CustomTypes == {"none", "uuid"}

(* A struct's fields in declaration order, with their attributes         *)
(* (#[primary_key], #[field_ignore], #[custom_type]). Props::check has   *)
(* accepted it: distinct names and exactly one primary key, which is     *)
(* persisted.                                                            *)
Descriptors ==
  UNION {{d \in [1..n -> [name : FieldIdents, ty : SemanticTypes, pk : BOOLEAN,
                          ignore : BOOLEAN, custom : CustomTypes]] :
            /\ \A i, j \in 1..n : i # j => d[i].name # d[j].name
            /\ Cardinality({i \in 1..n : d[i].pk}) = 1
            /\ \A i \in 1..n : d[i].pk => ~d[i].ignore /\ d[i].custom = "none"}
         : n \in 1..MaxFields}

(* Props::get_table_name *)
get_table_name(d) == "entity"

(* Props::get_fields_all_names and Props::get_fields_all_db_types: the   *)
(* persisted fields in declaration order, and for each its database      *)
(* type: the custom type when one is given, else the one inferred from   *)
(* the semantic type.                                                    *)
get_fields_all(d) == SelectSeq(d, LAMBDA f : ~f.ignore)

InferDbType(ty) == IF ty = "i32" THEN "integer" ELSE "text"

get_fields_all_names(d) ==
  [i \in 1..Len(get_fields_all(d)) |-> get_fields_all(d)[i].name]

get_fields_all_db_types(d) ==
  [i \in 1..Len(get_fields_all(d)) |->
     IF get_fields_all(d)[i].custom # "none"
     THEN get_fields_all(d)[i].custom
     ELSE InferDbType(get_fields_all(d)[i].ty)]

(* A create_migration that walks the names from the last to the first    *)
(* while the types go first to last.                                     *)
build_create_migration_fn_reversed_names(d) ==
  LET names == get_fields_all_names(d)
      types == get_fields_all_db_types(d)
  IN [table |-> get_table_name(d),
      columns |-> [i \in 1..Len(names) |-> <<names[Len(names) + 1 - i], types[i]>>]]

(* build_create_migration_fn: Migration::new(), create_table(table, |t|  *)
(* one add_column(name, db type) per entry of the two lists, which the   *)
(* quote! repetition walks in step).                                     *)
build_create_migration_fn(d) ==
  LET names == get_fields_all_names(d)
      types == get_fields_all_db_types(d)
  IN [table |-> get_table_name(d),
      columns |-> [i \in 1..Len(names) |-> <<names[i], types[i]>>]]

InitGen ==
  /\ InitPool
  /\ InitTasks
  /\ rec = [t \in Tasks |-> [id |-> PkDefault, name |-> "a"]]
  /\ store = <<>>
  /\ nextId = 1
  /\ desc \in Descriptors
  /\ mig = <<>>
  /\ saveFn = <<>>
  /\ InitMig

(* The generated create_migration() is called: Ok(m). *)
create_migration ==
  /\ mig = <<>>
  /\ mig' = <<build_create_migration_fn(desc)>>
  /\ UNCHANGED <<entityVars, desc, saveFn, migVars>>

(* Props::get_primary_key_field, get_fields_plain_names,                 *)
(* get_fields_plain_numbered and get_fields_plain_numbered_next_index:   *)
(* the primary key; the persisted fields that are not the primary key,   *)
(* in declaration order; a placeholder $1, $2, ... for each of them; and *)
(* the number after the last placeholder.                                *)
get_primary_key_field(d) == d[CHOOSE i \in 1..Len(d) : d[i].pk]

get_fields_plain(d) == SelectSeq(d, LAMBDA f : ~f.ignore /\ ~f.pk)

get_fields_plain_names(d) ==
  [i \in 1..Len(get_fields_plain(d)) |-> get_fields_plain(d)[i].name]

get_fields_plain_numbered(d) ==
  [i \in 1..Len(get_fields_plain(d)) |-> <<"$", i>>]

get_fields_plain_numbered_next_index(d) == Len(get_fields_plain(d)) + 1

(* A save whose UPDATE binds the key first and the fields after it. *)
build_save_fn_key_first(d) ==
  LET names == get_fields_plain_names(d)
      numbered == get_fields_plain_numbered(d)
      pk == get_primary_key_field(d).name
  IN [insert |-> [table |-> get_table_name(d), columns |-> names,
                  values |-> numbered, returning |-> pk,
                  params |-> [i \in 1..Len(names) |-> <<"self", names[i]>>]],
      update |-> [table |-> get_table_name(d),
                  set |-> [i \in 1..Len(names) |-> <<names[i], "=", numbered[i]>>],
                  where |-> <<pk, "=", <<"$", get_fields_plain_numbered_next_index(d)>>>>,
                  params |-> <<<<"self", pk>>>>
                               \o [i \in 1..Len(names) |-> <<"self", names[i]>>]]]

(* build_save_fn: the two statements of the generated save, each with    *)
(* the pieces concat! joins and the parameter slice it is sent with.     *)
(* INSERT INTO <table> (<names>) values(<numbered>) RETURNING <pk>; with *)
(* &[&self.<name>...], and UPDATE <table> SET <name = numbered>... WHERE *)
(* <pk>= $<next index> with &[&self.<name>..., &self.<pk>]. The quote!   *)
(* repetitions walk names and numbered in step.                          *)
build_save_fn(d) ==
  LET names == get_fields_plain_names(d)
      numbered == get_fields_plain_numbered(d)
      pk == get_primary_key_field(d).name
  IN [insert |-> [table |-> get_table_name(d), columns |-> names,
                  values |-> numbered, returning |-> pk,
                  params |-> [i \in 1..Len(names) |-> <<"self", names[i]>>]],
      update |-> [table |-> get_table_name(d),
                  set |-> [i \in 1..Len(names) |-> <<names[i], "=", numbered[i]>>],
                  where |-> <<pk, "=", <<"$", get_fields_plain_numbered_next_index(d)>>>>,
                  params |-> [i \in 1..Len(names) |-> <<"self", names[i]>>]
                               \o <<<<"self", pk>>>>]]

(* EntityBuilder::build expands the macro: save_fn is built from the     *)
(* entity's Props.                                                       *)
expand_save ==
  /\ saveFn = <<>>
  /\ saveFn' = <<build_save_fn(desc)>>
  /\ UNCHANGED <<entityVars, desc, mig, migVars>>

NextGen == create_migration \/ expand_save

SpecGen == InitGen /\ [][NextGen]_vars

(* ------------------------------------------------------------------ *)
(* SpecMig: DB::migrate_tables and DB::migrate, run again and again     *)
(* with lists the caller chooses                                        *)
(* ------------------------------------------------------------------ *)
MaxMigs == 2         \* longest list handed to migrate_tables
MaxRuns == 2         \* calls of migrate_tables in one behaviour

Migrator == CHOOSE t \in Tasks : TRUE

(* Migrations as create_migration builds them: a name (the table's) and  *)
(* the table-create it holds. "users" exists with two column lists: the  *)
(* entity before and after a field was added.                            *)
MigrationSpecs ==
  { [name |-> "users", raw |-> <<"id">>],
    [name |-> "users", raw |-> <<"id", "name">>],
    [name |-> "posts", raw |-> <<"id">>] }

MigrationLists ==
  UNION {[1..n -> MigrationSpecs] : n \in 0..MaxMigs}

(* m.raw.make::<Pg>(): the table-create as PostgreSQL text. *)
make(m) == <<"CREATE TABLE", m.name, m.raw>>

(* A version taken from a counter that moves from run to run instead of  *)
(* from the position in the list.                                        *)
MigrationVersion_from_run_counter(i) == i - 1 + runs

(* Versions that count down along the list. *)
MigrationVersion_descending(i) == MaxMigs - i

(* The version a run gives the i-th migration of its list, counted from  *)
(* 1 here: enumerate()'s index.                                          *)
MigrationVersion(i) == i - 1

(* format!("V{}__{}.rs", i, m.name) *)
file_name(i, m) == <<"V", MigrationVersion(i), "__", m.name, ".rs">>

(* refinery::Migration::unapplied answers Err for a file name that does  *)
(* not have the form V<version>__<name>: a migration name that does not  *)
(* begin with a word character (the empty name stands for these).        *)
unapplied_ok(fname) == fname[4] # ""

(* refinery::Migration::unapplied(&name, &sql): version and name are     *)
(* parsed out of the file name, the checksum is taken over name,         *)
(* version and sql.                                                      *)
unapplied(fname, sql) ==
  [version |-> fname[2], name |-> fname[4], sql |-> sql,
   checksum |-> <<fname[4], fname[2], sql>>]

(* migrate_tables: the list's refinery migrations, in list order. *)
ref_migrations(l) == [i \in 1..Len(l) |-> unapplied(file_name(i, l[i]), make(l[i]))]

(* A runner left with refinery's default, abort_divergent = true. *)
abort_divergent_default == TRUE

(* DB::migrate: runner.set_abort_divergent(false) *)
abort_divergent == FALSE

(* Runner::new leaves abort_missing at refinery's default. *)
abort_missing == TRUE

(* What the runner finds when it compares the recorded migrations with   *)
(* the list (refinery's verify step, run inside run_async).              *)
Recorded(h, v) == \E k \in 1..Len(h) : h[k].version = v
Entry(h, v) == h[CHOOSE k \in 1..Len(h) : h[k].version = v]
Listed(rm, v) == \E i \in 1..Len(rm) : rm[i].version = v

MissingVersions(h, rm) == {h[k].version : k \in {j \in 1..Len(h) : ~Listed(rm, h[j].version)}}

DivergentVersions(h, rm) ==
  {rm[i].version : i \in {j \in 1..Len(rm) :
     /\ Recorded(h, rm[j].version)
     /\ \/ Entry(h, rm[j].version).name # rm[j].name
        \/ Entry(h, rm[j].version).checksum # rm[j].checksum}}

CurrentVersion(h) == IF Len(h) = 0 THEN -1 ELSE h[Len(h)].version

Unrecorded(h, rm) == SelectSeq(rm, LAMBDA m : ~Recorded(h, m.version))

(* "Ok" with the migrations to apply, or the error the run ends with. *)
verify(h, rm) ==
  IF abort_missing /\ MissingVersions(h, rm) # {}
    THEN [res |-> "MissingVersion", apply |-> <<>>]
  ELSE IF abort_divergent /\ DivergentVersions(h, rm) # {}
    THEN [res |-> "DivergentVersion", apply |-> <<>>]
  ELSE IF abort_missing
          /\ \E i \in 1..Len(Unrecorded(h, rm)) :
               Unrecorded(h, rm)[i].version <= CurrentVersion(h)
    THEN [res |-> "MissingVersion", apply |-> <<>>]
  ELSE [res |-> "Ok",
        apply |-> SelectSeq(Unrecorded(h, rm),
                            LAMBDA m : m.version > CurrentVersion(h))]

(* migrate_tables(ms): the refinery migrations are built, each with      *)
(* unapplied(..).unwrap(), which panics on a rejected file name; then    *)
(* migrate sets abort_divergent and reaches pool.get().await.            *)
migrate_tables(t, l) ==
  /\ pc[t] = "ready"
  /\ runs < MaxRuns
  /\ runs' = runs + 1
  /\ calls < MaxCalls
  /\ calls' = calls + 1
  /\ ms' = l
  /\ lastRun' = [list |-> ms, ok |-> (op[t] = "migrate" /\ ret[t] = "Ok")]
  /\ before' = [history |-> history, schema |-> schema]
  /\ todo' = <<>>
  /\ report' = <<>>
  /\ logged' = {}
  /\ pc' = [pc EXCEPT ![t] = IF \A i \in 1..Len(l) : unapplied_ok(file_name(i, l[i]))
                              THEN "get" ELSE "panicked"]
  /\ op' = [op EXCEPT ![t] = "migrate"]
  /\ ret' = [ret EXCEPT ![t] = "none"]
  /\ discards' = [discards EXCEPT ![t] = 0]
  /\ UNCHANGED <<poolVars, arg, rec, flag, found, prev, issued, store, nextId,
                 genVars, history, schema, historyTable>>

(* run_async: the history table is created if it does not exist. *)
MigAssertTable(t) ==
  /\ pc[t] = "assert"
  /\ historyTable' = TRUE
  /\ pc' = [pc EXCEPT ![t] = "verify"]
  /\ UNCHANGED <<poolVars, op, arg, rec, ret, flag, found, prev, issued,
                 discards, store, nextId, calls, genVars, ms, todo, report,
                 logged, history, schema, before, lastRun, runs>>

(* run_async: the recorded migrations are read and compared with the     *)
(* list. A divergent one is logged; the run ends here with an error if   *)
(* verify says so, and the guard `client` goes out of scope.             *)
MigVerify(t) ==
  /\ pc[t] = "verify"
  /\ LET v == verify(history, ref_migrations(ms))
     IN IF v.res = "Ok"
        THEN /\ todo' = v.apply
             /\ logged' = DivergentVersions(history, ref_migrations(ms))
             /\ pc' = [pc EXCEPT ![t] = "apply"]
             /\ UNCHANGED <<poolVars, ret, flag, found>>
        ELSE /\ Release(t, "ok")
             /\ Return(t, v.res, FALSE, <<>>)
             /\ UNCHANGED <<todo, logged>>
  /\ UNCHANGED <<op, arg, rec, prev, issued, discards, store, nextId, calls,
                 genVars, ms, report, history, schema, historyTable, before,
                 lastRun, runs>>

(* run_async: the next migration runs in its transaction, sql and the    *)
(* history row together. CREATE TABLE of a table that exists fails, and  *)
(* the run ends with that error.                                         *)
MigApply(t) ==
  /\ pc[t] = "apply"
  /\ todo # <<>>
  /\ LET m == Head(todo)
     IN IF m.sql[2] \in schema
        THEN /\ Release(t, "ok")
             /\ Return(t, "StatementError", FALSE, <<>>)
             /\ UNCHANGED <<todo, report, history, schema>>
        ELSE /\ schema' = schema \cup {m.sql[2]}
             /\ history' = Append(history, [version |-> m.version, name |-> m.name,
                                            checksum |-> m.checksum])
             /\ report' = Append(report, m)
             /\ todo' = Tail(todo)
             /\ UNCHANGED <<poolVars, pc, ret, flag, found>>
  /\ UNCHANGED <<op, arg, rec, prev, issued, discards, store, nextId, calls,
                 genVars, ms, logged, historyTable, before, lastRun, runs>>

(* run_async: a round trip of the run fails (the connection is lost, a   *)
(* statement is refused): map_err(Error::RefineryError) and `?`.         *)
MigRunErr(t) ==
  /\ pc[t] \in {"assert", "verify", "apply"}
  /\ Release(t, "ok")
  /\ Return(t, "StatementError", FALSE, <<>>)
  /\ UNCHANGED <<op, arg, rec, prev, issued, discards, store, nextId, calls,
                 genVars, migVars>>

(* run_async: nothing is left to apply; Ok(report). *)
MigDone(t) ==
  /\ pc[t] = "apply"
  /\ todo = <<>>
  /\ Release(t, "ok")
  /\ Return(t, "Ok", FALSE, <<>>)
  /\ UNCHANGED <<op, arg, rec, prev, issued, discards, store, nextId, calls,
                 genVars, migVars>>

InitMigrate ==
  /\ InitPool
  /\ InitTasks
  /\ rec = [t \in Tasks |-> [id |-> PkDefault, name |-> "a"]]
  /\ store = <<>>
  /\ nextId = 1
  /\ InitGenIdle
  /\ InitMig

NextMig ==
  \/ \E l \in MigrationLists : migrate_tables(Migrator, l)
  \/ PoolGetIdle(Migrator) \/ PoolGetDiscard(Migrator) \/ PoolGetNew(Migrator)
  \/ PoolGetErr(Migrator)
  \/ MigAssertTable(Migrator) \/ MigVerify(Migrator) \/ MigApply(Migrator)
  \/ MigRunErr(Migrator) \/ MigDone(Migrator)
  \/ SessionDies

SpecMig == InitMigrate /\ [][NextMig]_vars

(* ------------------------------------------------------------------ *)
(* SpecFail: one caller using every operation against a database whose  *)
(* content the entity does not decide: rows the entity's types cannot   *)
(* take, and migrations of any name                                     *)
(* ------------------------------------------------------------------ *)
Caller == CHOOSE t \in Tasks : TRUE

(* Tables whose name column may hold NULL. *)
TablesAny ==
  UNION {{s \in [1..n -> [id : 1..MaxRows, name : FieldNames \cup {SqlNull}]] :
            \A i, j \in 1..n : i # j => s[i].id # s[j].id} : n \in 0..MaxRows}

(* Lists that may hold a migration whose name the runner's file-name     *)
(* pattern rejects.                                                      *)
MigrationListsAny ==
  UNION {[1..n -> {[name |-> "users", raw |-> <<"id">>],
                   [name |-> "", raw |-> <<"id">>]}] : n \in 0..MaxMigs}

InitFail ==
  /\ InitPool
  /\ InitTasks
  /\ rec = [t \in Tasks |-> [id |-> PkDefault, name |-> "a"]]
  /\ store \in TablesAny
  /\ nextId = MaxRows + 1
  /\ InitGenIdle
  /\ InitMig

NextFail ==
  \/ save(Caller) \/ find(Caller) \/ first(Caller)
  \/ \E l \in MigrationListsAny : migrate_tables(Caller, l)
  \/ Executor(Caller)
  \/ SaveInsertDone(Caller) \/ SaveInsertNoRow(Caller) \/ SaveInsertPanic(Caller)
  \/ SaveUpdateDone(Caller)
  \/ FindDone(Caller) \/ FirstDone(Caller)
  \/ MigAssertTable(Caller) \/ MigVerify(Caller) \/ MigApply(Caller)
  \/ MigRunErr(Caller) \/ MigDone(Caller)
  \/ SessionDies

SpecFail == InitFail /\ [][NextFail]_vars

(* ================================================================== *)
(* Properties                                                           *)
(* ================================================================== *)

RowsWithKey(s, k) == Cardinality({i \in DOMAIN s : s[i].id = k})
Finished(t, o) == pc[t] = "ready" /\ op[t] = o /\ ret[t] = "Ok"

(* C1: a save that succeeds on a record whose key is the default gives   *)
(* the record a non-default key and returns created = true; the next     *)
(* save on that record returns created = false, keeps the key and leaves *)
(* exactly one stored row with that key.                                 *)
C1_SaveCreatesThenUpdates ==
  [][\A t \in Tasks :
       (op[t] = "save" /\ pc[t] = "run" /\ pc'[t] = "ready" /\ ret'[t] = "Ok")
         => IF rec[t].id = PkDefault
            THEN rec'[t].id # PkDefault /\ flag'[t] = TRUE
            ELSE prev[t] = "created"
                   => /\ flag'[t] = FALSE
                      /\ rec'[t].id = rec[t].id
                      /\ RowsWithKey(store', rec'[t].id) = 1]_vars

C1_Witness ==
  \E t \in Tasks :
    /\ Finished(t, "save") /\ prev[t] = "created" /\ flag[t] = FALSE
    /\ rec[t].id # PkDefault /\ RowsWithKey(store, rec[t].id) = 1

(* C2: a delete on a record with the default key hands no statement to   *)
(* the executor and returns false; a delete on a persisted record        *)
(* returns true and resets the key to the default; the delete repeated   *)
(* on the reset record returns false and issues no statement.            *)
C2_DeleteOnce ==
  \A t \in Tasks :
    /\ (op[t] = "delete" /\ pc[t] # "ready") => rec[t].id # PkDefault
    /\ (op[t] = "delete" /\ pc[t] = "ready" /\ issued[t] = 0)
         => ret[t] = "Ok" /\ flag[t] = FALSE
    /\ (Finished(t, "delete") /\ prev[t] \in {"created", "updated"})
         => flag[t] = TRUE /\ rec[t].id = PkDefault /\ issued[t] = 1
    /\ (Finished(t, "delete") /\ prev[t] = "deleted")
         => flag[t] = FALSE /\ issued[t] = 0 /\ rec[t].id = PkDefault

C2_Witness ==
  \E t \in Tasks :
    /\ Finished(t, "delete") /\ prev[t] = "deleted"
    /\ flag[t] = FALSE /\ issued[t] = 0

(* C3: two saves on distinct default-keyed records that run at the same  *)
(* time and succeed both return created = true, leave the two records    *)
(* with different keys, and the table holds a row for each.              *)
C3_ConcurrentSavesDistinct ==
  \A t, u \in Tasks :
    (t # u /\ Finished(t, "save") /\ flag[t] /\ Finished(u, "save") /\ flag[u])
      => /\ rec[t].id # PkDefault /\ rec[u].id # PkDefault
         /\ rec[t].id # rec[u].id
         /\ RowsWithKey(store, rec[t].id) = 1
         /\ RowsWithKey(store, rec[u].id) = 1

(* Two connections are idle only if the second save took its connection  *)
(* while the first still held one: the two calls overlapped.             *)
C3_Witness ==
  \E t, u \in Tasks :
    /\ t # u /\ Finished(t, "save") /\ flag[t] /\ Finished(u, "save") /\ flag[u]
    /\ calls = 2 /\ idleOk + idleBad = 2

(* C4: a call holds one connection while it prepares and runs, and none  *)
(* once it has returned, whether it returned Ok or an error.             *)
C4_NoConnectionLeaked ==
  /\ \A t \in Tasks : pc[t] \in {"prepare", "run"} <=> conn[t] # "none"
  /\ (\A t \in Tasks : pc[t] = "ready") => Borrowed = 0

C4_Witness ==
  /\ \A t \in Tasks : pc[t] = "ready" /\ conn[t] = "none"
  /\ \E t, u \in Tasks : ret[t] = "PostgresError" /\ ret[u] = "Ok" /\ issued[u] = 1

(* C5 as stated: never more borrowed connections than max_open. *)
C5_Original == Borrowed <= max_open

(* C5, amended: for max_open >= 1 the open connections never exceed      *)
(* max_open, and a getter that finds the pool at capacity with nothing   *)
(* idle gets no connection in that step.                                 *)
C5_BoundedPool ==
  /\ [](max_open >= 1 => Borrowed <= max_open /\ NumOpen <= max_open)
  /\ [][\A t \in Tasks :
          (max_open >= 1 /\ pc[t] = "get" /\ idleOk + idleBad = 0
             /\ Borrowed >= max_open)
            => conn'[t] = "none"]_vars

C5_Witness ==
  /\ max_open = 1
  /\ \E t, u \in Tasks : pc[t] = "get" /\ conn[u] # "none"

(* C6: a connection is handed to a borrower only after check passed on   *)
(* it; one that fails check is dropped and the getter goes on to another *)
(* or a new one, so no borrower is handed a dead connection.             *)
C6_NoBrokenHandOver == \A t \in Tasks : conn[t] # "broken"

C6_Witness == \E t \in Tasks : conn[t] = "ok" /\ discards[t] > 0

(* C9: find returns one decoded record per matching row, in the order    *)
(* the table yields them (none when nothing matches); first returns      *)
(* nothing when no row matches and otherwise the record of the first     *)
(* matching row, the head of what find returns.                          *)
C9_FindAllFirstHead ==
  LET matching == SelectSeq(store, LAMBDA r : Matches(r, arg[Reader]))
  IN /\ Finished(Reader, "find")
          => /\ Len(found[Reader]) = Len(matching)
             /\ \A i \in 1..Len(matching) :
                  /\ found[Reader][i].id = matching[i].id
                  /\ found[Reader][i].name = matching[i].name
     /\ Finished(Reader, "first")
          => IF Len(matching) = 0
             THEN found[Reader] = <<>>
             ELSE /\ Len(found[Reader]) = 1
                  /\ found[Reader][1].id = matching[1].id
                  /\ found[Reader][1].name = matching[1].name

C9_Witness ==
  /\ Finished(Reader, "first")
  /\ Len(SelectSeq(store, LAMBDA r : Matches(r, arg[Reader]))) = 2
  /\ Len(found[Reader]) = 1
  /\ found[Reader][1].id = store[1].id

RunEnded == pc[Migrator] = "ready" /\ op[Migrator] = "migrate" /\ ret[Migrator] # "none"

C8_Original ==
  RunEnded
    => /\ ret[Migrator] \in {"Ok", "MobcError", "StatementError"}
       /\ ret[Migrator] = "Ok"
            => /\ \A v \in DivergentVersions(before.history, ref_migrations(ms)) :
                    \E i \in 1..Len(report) : report[i].version = v
               /\ \A i \in 1..Len(ms) :
                    ~Recorded(before.history, i - 1) => Recorded(history, i - 1)

(* C8, amended: divergence never fails the run; it is logged, and the    *)
(* report names only the migrations the run applied; every migration of  *)
(* the list that was not recorded is applied and recorded. Besides a     *)
(* failed connection or statement, a run fails only when a recorded      *)
(* version is missing from the list.                                     *)
C8_DivergenceTolerated ==
  RunEnded
    => /\ ret[Migrator] \in {"Ok", "MobcError", "StatementError", "MissingVersion"}
       /\ ret[Migrator] = "MissingVersion"
            => /\ \E k \in 1..Len(before.history) :
                    before.history[k].version >= Len(ms)
               /\ history = before.history /\ schema = before.schema
       /\ ret[Migrator] = "Ok"
            => /\ logged = {i - 1 : i \in {j \in 1..Len(ms) :
                    \E k \in 1..Len(before.history) :
                      /\ before.history[k].version = j - 1
                      /\ before.history[k].checksum # <<ms[j].name, j - 1, make(ms[j])>>}}
               /\ \A i \in 1..Len(report) :
                    /\ report[i].version \notin logged
                    /\ ~Recorded(before.history, report[i].version)
               /\ \A i \in 1..Len(ms) :
                    ~Recorded(before.history, i - 1)
                      => /\ \E k \in 1..Len(history) :
                              /\ history[k].version = i - 1
                              /\ history[k].name = ms[i].name
                         /\ \E k \in 1..Len(report) : report[k].version = i - 1
                         /\ ms[i].name \in schema

C8_Witness ==
  /\ RunEnded /\ ret[Migrator] = "Ok"
  /\ logged # {} /\ report # <<>>

(* C12: a save on the INSERT path whose statement brings back no row     *)
(* (nothing was stored) ends with a failure, the generator's own         *)
(* Error::Other unless the executor failed; it never returns Ok, and the *)
(* key stays at its default. Error::Other comes from nowhere else.       *)
C12_InsertWithoutRowFails ==
  /\ [][\A t \in Tasks :
          (op[t] = "save" /\ pc[t] = "run" /\ SaveInserts(rec[t])
             /\ pc'[t] = "ready" /\ store' = store)
            => /\ ret'[t] \in {"Other", "PostgresError"}
               /\ flag'[t] = FALSE
               /\ rec'[t] = rec[t]
               /\ rec'[t].id = PkDefault]_vars
  /\ [](\A t \in Tasks :
          ret[t] = "Other"
            => op[t] = "save" /\ rec[t].id = PkDefault /\ flag[t] = FALSE)

C12_Witness ==
  \E t \in Tasks :
    /\ pc[t] = "ready" /\ op[t] = "save" /\ ret[t] = "Other"
    /\ rec[t].id = PkDefault /\ issued[t] = 1 /\ store = <<>>

(* C18: while a save or a delete is in flight, every step that is not    *)
(* its successful return leaves the record as it is; so a call that      *)
(* ends with the executor's error (pool, prepare or statement) returns   *)
(* that error with the record's key and fields as they were at the call. *)
C18_FailureLeavesRecord ==
  [][\A t \in Tasks :
       (op[t] \in {"save", "delete"} /\ pc[t] # "ready"
          /\ ~(pc'[t] = "ready" /\ ret'[t] = "Ok"))
         => /\ rec'[t] = rec[t]
            /\ pc'[t] = "ready" => ret'[t] \in {"MobcError", "PostgresError", "Other"}]_vars

C18_Witness ==
  \E t, u \in Tasks :
    /\ pc[t] = "ready" /\ op[t] = "delete" /\ ret[t] = "PostgresError"
    /\ rec[t].id # PkDefault
    /\ pc[u] = "ready" /\ op[u] = "save" /\ ret[u] = "MobcError"
    /\ rec[u].id = PkDefault

(* C19: a save on a record whose last operation was a delete that        *)
(* returned true takes the INSERT arm: it returns created = true, the    *)
(* record gets a key no stored row has, and the table is the one before  *)
(* with the new row appended (no row is updated).                        *)
C19_SaveAfterDeleteInserts ==
  [][\A t \in Tasks :
       (op[t] = "save" /\ pc[t] = "run" /\ prev[t] = "deleted"
          /\ pc'[t] = "ready" /\ ret'[t] = "Ok")
         => /\ flag'[t] = TRUE
            /\ rec'[t].id # PkDefault
            /\ RowsWithKey(store, rec'[t].id) = 0
            /\ store' = Append(store, [id |-> rec'[t].id, name |-> rec[t].name])]_vars

C19_Witness ==
  \E t \in Tasks :
    /\ Finished(t, "save") /\ prev[t] = "deleted" /\ flag[t] = TRUE
    /\ rec[t].id = 2 /\ Len(store) = 1 /\ store[1].id = 2

(* C11: a save on a record whose key is not the default sends one        *)
(* statement, an UPDATE filtered by that key, and returns created =      *)
(* false whatever the number of rows it matched: rows with another key   *)
(* stay as they are, a row with the key takes the record's field, no row *)
(* is added, and the record's key is unchanged. When no row has the key  *)
(* the table is unchanged and the save still returns Ok(false).          *)
C11_UpdateNeverCreates ==
  [][(op[Owner] = "save" /\ pc[Owner] = "run" /\ rec[Owner].id # PkDefault
        /\ pc'[Owner] = "ready" /\ ret'[Owner] = "Ok")
       => /\ flag'[Owner] = FALSE
          /\ issued'[Owner] = 1
          /\ rec'[Owner] = rec[Owner]
          /\ Len(store') = Len(store)
          /\ \A i \in DOMAIN store :
               /\ store'[i].id = store[i].id
               /\ store[i].id # rec[Owner].id => store'[i] = store[i]
               /\ store[i].id = rec[Owner].id => store'[i].name = rec[Owner].name
          /\ RowsWithKey(store, rec[Owner].id) = 0 => store' = store]_vars

C11_Witness ==
  /\ Finished(Owner, "save") /\ flag[Owner] = FALSE /\ prev[Owner] = "none"
  /\ rec[Owner].id # PkDefault
  /\ RowsWithKey(store, rec[Owner].id) = 0
  /\ Len(store) = 1

(* C16: a delete on a record with a non-default key that affects no row  *)
(* returns false and changes neither the record nor the table; when it   *)
(* affects a row it returns true, removes the rows with the key and      *)
(* resets the key, and only then.                                        *)
C16_DeleteMissBack ==
  [][(op[Owner] = "delete" /\ pc[Owner] = "run"
        /\ pc'[Owner] = "ready" /\ ret'[Owner] = "Ok")
       => /\ rec[Owner].id # PkDefault
          /\ IF RowsWithKey(store, rec[Owner].id) = 0
             THEN /\ flag'[Owner] = FALSE
                  /\ rec'[Owner] = rec[Owner]
                  /\ store' = store
             ELSE /\ flag'[Owner] = TRUE
                  /\ rec'[Owner] = [rec[Owner] EXCEPT !.id = PkDefault]
                  /\ store' = SelectSeq(store, LAMBDA r : r.id # rec[Owner].id)
                  /\ Len(store') < Len(store)]_vars

C16_Witness ==
  /\ Finished(Owner, "delete") /\ flag[Owner] = FALSE /\ issued[Owner] = 1
  /\ rec[Owner].id # PkDefault
  /\ RowsWithKey(store, rec[Owner].id) = 0
  /\ store # <<>>

(* C17: for an entity with n >= 1 persisted non-key fields, the INSERT   *)
(* of the generated save lists, numbers and binds them in declaration    *)
(* order (i-th column, placeholder $i and i-th bound value are the i-th  *)
(* such field's); the UPDATE's i-th assignment sets that field from $i,  *)
(* bound to its value, and filters on the key with $(n+1), bound last    *)
(* to the key; neither the key nor an ignored field is a column.         *)
C17_PositionalBinding ==
  LET isPlain(j) == ~desc[j].ignore /\ ~desc[j].pk
      n == Cardinality({j \in 1..Len(desc) : isPlain(j)})
      \* the position in the declaration of the i-th persisted non-key field
      nth(i) == CHOOSE j \in 1..Len(desc) :
                  isPlain(j) /\ Cardinality({k \in 1..j : isPlain(k)}) = i
      key == CHOOSE j \in 1..Len(desc) : desc[j].pk
  IN (saveFn # <<>> /\ n >= 1) =>
       LET ins == saveFn[1].insert
           upd == saveFn[1].update
       IN /\ Len(ins.columns) = n /\ Len(ins.values) = n /\ Len(ins.params) = n
          /\ Len(upd.set) = n /\ Len(upd.params) = n + 1
          /\ \A i \in 1..n :
               /\ ins.columns[i] = desc[nth(i)].name
               /\ ins.values[i] = <<"$", i>>
               /\ ins.params[i] = <<"self", desc[nth(i)].name>>
               /\ upd.set[i] = <<desc[nth(i)].name, "=", <<"$", i>>>>
               /\ upd.params[i] = <<"self", desc[nth(i)].name>>
          /\ upd.where = <<desc[key].name, "=", <<"$", n + 1>>>>
          /\ upd.params[n + 1] = <<"self", desc[key].name>>
          /\ ins.returning = desc[key].name
          /\ \A j \in 1..Len(desc) :
               (desc[j].pk \/ desc[j].ignore)
                 => /\ \A i \in 1..n : ins.columns[i] # desc[j].name
                    /\ \A i \in 1..n : upd.set[i][1] # desc[j].name

C17_Witness ==
  /\ saveFn # <<>>
  /\ Len(desc) = 3 /\ desc[2].pk /\ ~desc[1].ignore /\ ~desc[3].ignore
  /\ Len(saveFn[1].update.params) = 3

C13_NoPanic == \A t \in Tasks : pc[t] # "panicked"

(* C15: a call abandoned while it held a connection gives the connection *)
(* back to the pool without a result; whenever a getter is later handed  *)
(* a connection out of the idle ones, check has answered Ok on it, so no *)
(* borrower ever holds one that would fail check, the abandoned ones     *)
(* included.                                                             *)
C15_CancelledIsRechecked ==
  /\ [][\A t \in Tasks :
          /\ (pc[t] \in {"prepare", "run"} /\ pc'[t] = "ready" /\ ret'[t] = "none")
               => /\ conn'[t] = "none"
                  /\ idleOk' + idleBad' = idleOk + idleBad + 1
                  /\ rec'[t] = rec[t]
          /\ (pc[t] = "get" /\ conn'[t] # "none"
                 /\ idleOk' + idleBad' < idleOk + idleBad)
               => check(conn'[t]) = "Ok"]_vars
  /\ [](\A t \in Tasks : conn[t] # "none" => check(conn[t]) = "Ok")

(* With max_open = 1 there is one connection at a time: the one the      *)
(* getter saw fail check is the one the abandoned call gave back.        *)
C15_Witness ==
  \E t, u \in Tasks :
    /\ t # u /\ max_open = 1
    /\ pc[t] = "ready" /\ op[t] # "none" /\ ret[t] = "none"
    /\ conn[u] = "ok" /\ discards[u] = 1 /\ calls = 2

(* C20: a call asks the pool for a connection only while it holds none   *)
(* and holds one only between its pool.get and its return; and with      *)
(* max_open >= 1, a call waiting in pool.get is eventually handed a      *)
(* connection and every call in flight eventually returns.               *)
C20_NoPoolDeadlock ==
  /\ [](\A t \in Tasks :
          /\ pc[t] = "get" => conn[t] = "none"
          /\ pc[t] = "ready" => conn[t] = "none")
  /\ \A t \in Tasks :
       /\ (max_open >= 1 /\ pc[t] = "get") ~> (conn[t] # "none")
       /\ (max_open >= 1 /\ pc[t] # "ready") ~> (pc[t] = "ready")

(* A getter suspended on a full pool: the only connection is borrowed. *)
C20_Witness ==
  \E t, u \in Tasks :
    /\ max_open = 1 /\ AtCapacity /\ idleOk + idleBad = 0
    /\ pc[t] = "get" /\ conn[t] = "none"
    /\ pc[u] = "run" /\ conn[u] = "ok"

====
